---- MODULE Spec2Model ----
(***************************************************************************)
(* Model of class AccessAPI_ML (AccessAPI_ML.py): one client object, its   *)
(* construction (token exchange by POST) and its twelve query methods,     *)
(* each of which issues HTTP GETs through _make_api_request.               *)
(*                                                                         *)
(* A method call blocks at every HTTP request; the model splits a call at  *)
(* these points: the step that issues a request, and the step that takes   *)
(* the server's answer and runs the method up to its next request, its     *)
(* return or its uncaught exception.  The server is the environment: it    *)
(* answers any request with any response of a small set.                   *)
(*                                                                         *)
(* Python strings that the code slices or concatenates are sequences of    *)
(* characters; URLs are sequences of fragments.                            *)
(***************************************************************************)
EXTENDS Integers, Sequences, FiniteSets, TLC

VARIABLES
    init_pc,       \* position of the constructor: "new", "post", "ready", "failed"
    access_token,  \* self.access_token
    base_url,      \* self.base_url
    user_agent,    \* self.user_agent
    post_req,      \* the token-exchange POST that was issued (or NoPost)
    posts,         \* number of POSTs issued
    token_resp,    \* the token endpoint's answer (or NoResponse)
    init_exc,      \* the exception that ended the constructor ("" for none)
    frame,         \* per caller thread: the running method call
    auth_sent      \* Authorization values of all GETs issued so far

vars == <<init_pc, access_token, base_url, user_agent, post_req, posts,
          token_resp, init_exc, frame, auth_sent>>

-----------------------------------------------------------------------------
(* Bounds of the model *)

\* GETs one method call may issue before the model stops following it
MaxGets == 3
\* largest paging.total the server reports
MaxTotal == 3
\* largest explicit limit a caller passes
MaxLimit == 2

\* the default of the parameter limit of both paginated methods
DefaultLimit == 50
\* the only status code _make_api_request accepts
HTTP_OK == 200
\* length of the prefix get_items_details keeps of start_time
DateLen == 10

Threads == {"t1", "t2"}
MainThread == {"t1"}

-----------------------------------------------------------------------------
(* Python values *)

None == [type |-> "NoneType"]
Dict(d) == [type |-> "dict", value |-> d]
List(s) == [type |-> "list", value |-> s]
Tuple(s) == [type |-> "tuple", value |-> s]

\* how a function ends: with a value, or with an exception
Return(v) == [tag |-> "return", val |-> v]
Raise(e) == [tag |-> "raise", error |-> e]

Unset == "<unset>"

-----------------------------------------------------------------------------
(* The inputs: credentials, arguments, server responses *)

ClientIds == {"cid"}
ClientSecrets == {"secret"}
RefreshTokens == {"rt1", "rt2"}
Tokens == {"tokA", "tokB"}

SellerIds == {"s1", "s2"}
Keywords == {"kw"}
ItemIds == {"MLB1", "MLB2"}
Categories == {"cat"}
Days == {7, 30}

Date1 == <<"2", "0", "2", "3", "-", "0", "1", "-", "0", "1">>
Date2 == <<"2", "0", "2", "3", "-", "0", "1", "-", "3", "1">>
Dates == {Date1, Date2}

Limits == (0 .. MaxLimit) \cup {DefaultLimit}

\* start_time values: longer than, and shorter than, DateLen characters
LongTime == Date1 \o <<"T", "1", "0", ":", "0", "0", "Z">>
ShortTime == <<"2", "0", "2", "3">>

Page1 == <<"i1">>
Page2 == <<"i1", "i2">>
Pages == {Page1, Page2}
Totals == 0 .. MaxTotal

\* decoded JSON documents
ItemDoc(st) == [start_time |-> st, seller_id |-> "s1", sold_quantity |-> 7]
ItemDocNoSold == [start_time |-> LongTime, seller_id |-> "s1"]
SearchDoc(P, T) == [results |-> P, paging |-> [total |-> T]]
SearchDocNoPaging == [results |-> Page1]
ErrorDoc == [message |-> "error"]

Docs == {ItemDoc(LongTime), ItemDoc(ShortTime), ItemDocNoSold, SearchDocNoPaging}
          \cup {SearchDoc(P, T) : P \in Pages, T \in Totals}

\* a response body: text that decodes to a document, or text that is no JSON
Json(d) == [valid |-> TRUE, doc |-> d]
NotJson == [valid |-> FALSE]

Response(s, b) == [kind |-> "response", status_code |-> s, text |-> b]
\* requests.get / requests.post raising instead of returning
NetworkFailure == [kind |-> "failure"]

Responses ==
    {Response(HTTP_OK, Json(d)) : d \in Docs}
      \cup {Response(HTTP_OK, NotJson),
            Response(201, Json(SearchDoc(Page1, 1))),
            Response(404, Json(ErrorDoc)),
            Response(500, NotJson),
            NetworkFailure}

TokenDoc(tk) == [access_token |-> tk]
TokenResponses ==
    {Response(HTTP_OK, Json(TokenDoc(tk))) : tk \in Tokens}
      \cup {Response(400, Json(ErrorDoc)),
            Response(HTTP_OK, NotJson),
            NetworkFailure}

\* the smaller inputs of the two-thread specification
ConcSellerIds == {"s1"}
ConcItemIds == {"MLB1"}
ConcDates == {Date1}
ConcDays == {7}
ConcLimits == {1}
ConcResponses ==
    {Response(HTTP_OK, Json(ItemDoc(LongTime))),
     Response(HTTP_OK, Json(SearchDoc(Page1, 2))),
     Response(HTTP_OK, NotJson),
     Response(404, Json(ErrorDoc)),
     NetworkFailure}

NoPost == [url |-> Unset]
NoRequest == [url |-> <<>>]
NoCall == [method |-> "none"]
NoResponse == [kind |-> "none"]

IdleFrame ==
    [pc |-> "idle", call |-> NoCall, req |-> NoRequest, ngets |-> 0,
     hist |-> <<>>, api_result |-> Return(None), offset |-> 0,
     resultados |-> <<>>, ret |-> None, exc |-> ""]

-----------------------------------------------------------------------------
(* Construction: __init__ and _get_access_token *)

TokenUrl == "https://api.mercadolibre.com/oauth/token"
BaseUrl == "https://api.mercadolibre.com/"
UserAgent == "Mozilla/5.0 (Windows NT 10.0; Win64; x64) AppleWebKit/537.36 (KHTML, like Gecko) Chrome/117.0.0.0 Safari/537.36"

TokenPayload(client_id, client_secret, refresh_token) ==
    [client_id |-> client_id, client_secret |-> client_secret,
     refresh_token |-> refresh_token, grant_type |-> "refresh_token"]

\* response.json(): the decoded document, or an exception
json(r) ==
    IF r.text.valid THEN Return(r.text.doc) ELSE Raise("JSONDecodeError")

\* variant: token.get('access_token') in place of token['access_token']
get_access_token_result_get(r) ==
    IF r.kind = "failure" THEN Raise("ConnectionError")
    ELSE IF json(r).tag = "raise" THEN json(r)
    ELSE IF "access_token" \notin DOMAIN json(r).val THEN Return(Unset)
    ELSE Return(json(r).val.access_token)

\* lines 52-54, from the answer of requests.post on
get_access_token_result(r) ==
    IF r.kind = "failure" THEN Raise("ConnectionError")
    ELSE IF json(r).tag = "raise" THEN json(r)
    ELSE IF "access_token" \notin DOMAIN json(r).val THEN Raise("KeyError")
    ELSE Return(json(r).val.access_token)

\* __init__ up to the blocking requests.post of _get_access_token
Construct(client_id, client_secret, refresh_token) ==
    /\ init_pc = "new"
    /\ init_pc' = "post"
    /\ post_req' = [url |-> TokenUrl,
                    data |-> TokenPayload(client_id, client_secret, refresh_token)]
    /\ posts' = posts + 1
    /\ UNCHANGED <<access_token, base_url, user_agent, token_resp, init_exc,
                   frame, auth_sent>>

\* the rest of __init__: the token is stored, then base_url and user_agent
TokenReply(r) ==
    /\ init_pc = "post"
    /\ token_resp' = r
    /\ LET out == get_access_token_result(r) IN
         IF out.tag = "return"
         THEN /\ access_token' = out.val
              /\ base_url' = BaseUrl
              /\ user_agent' = UserAgent
              /\ init_pc' = "ready"
              /\ init_exc' = ""
         ELSE /\ init_pc' = "failed"
              /\ init_exc' = out.error
              /\ UNCHANGED <<access_token, base_url, user_agent>>
    /\ UNCHANGED <<post_req, posts, frame, auth_sent>>

-----------------------------------------------------------------------------
(* The generic request primitive: _make_api_request *)

\* variant: the refresh token sent in place of the access token
HeadersWithRefreshToken ==
    [Authorization |-> post_req.data.refresh_token, User_Agent |-> user_agent]

\* the headers of every GET
Headers == [Authorization |-> access_token, User_Agent |-> user_agent]

\* the GET that _make_api_request issues: url, headers, params
Request(endpoint, params) ==
    [url |-> <<base_url>> \o endpoint, params |-> params, headers |-> Headers]

\* variant: any 2xx status accepted (response.ok in place of == 200)
make_api_request_result_any2xx(r) ==
    IF r.kind = "failure" THEN Raise("ConnectionError")
    ELSE IF r.status_code \div 100 = 2
         THEN (IF json(r).tag = "raise" THEN json(r) ELSE Return(Dict(json(r).val)))
         ELSE Return(None)

\* variant: the request wrapped in try/except, every failure turned into None
make_api_request_result_caught(r) ==
    IF r.kind = "failure" THEN Return(None)
    ELSE IF r.status_code = HTTP_OK
         THEN (IF json(r).tag = "raise" THEN Return(None) ELSE Return(Dict(json(r).val)))
         ELSE Return(None)

\* what _make_api_request does with the answer of requests.get
make_api_request_result(r) ==
    IF r.kind = "failure" THEN Raise("ConnectionError")
    ELSE IF r.status_code = HTTP_OK
         THEN (IF json(r).tag = "raise" THEN json(r) ELSE Return(Dict(json(r).val)))
         ELSE Return(None)

\* params=None
NoParams == <<>>

-----------------------------------------------------------------------------
(* Endpoints and parameter maps of the twelve query methods *)

StartOfDay == <<"T", "0", "0", ":", "0", "0", ":", "0", "0", ".", "0", "0", "0", "-", "0", "0", ":", "0", "0">>
EndOfDay == <<"T", "2", "3", ":", "5", "9", ":", "5", "9", ".", "0", "0", "0", "-", "0", "0", ":", "0", "0">>

get_vendas_params(seller_id) ==
    ("access_token" :> access_token) @@ ("seller" :> seller_id)

\* variant: the start-of-day suffix pasted into both bounds
get_vendas_by_range_params_pasted(seller_id, dt_ini, dt_fim) ==
    ("access_token" :> access_token)
      @@ ("seller" :> seller_id)
      @@ ("order.date_created.from" :> dt_ini \o StartOfDay)
      @@ ("order.date_created.to" :> dt_fim \o StartOfDay)

get_vendas_by_range_params(seller_id, dt_ini, dt_fim) ==
    ("access_token" :> access_token)
      @@ ("seller" :> seller_id)
      @@ ("order.date_created.from" :> dt_ini \o StartOfDay)
      @@ ("order.date_created.to" :> dt_fim \o EndOfDay)

get_produtos_params(palavra_chave) == ("q" :> palavra_chave)

\* offset is the local counter; the literal 0 is what line 143 sends
get_produtos_paginacao_params(palavra_chave, limit, offset) ==
    ("offset" :> 0) @@ ("limit" :> limit) @@ ("q" :> palavra_chave)

get_items_by_seller_params(id_seller) ==
    ("seller_id" :> id_seller) @@ ("sort" :> "price_asc")

get_items_by_category_params(categoria) == ("category" :> categoria)

\* variant: the local counter sent as offset
get_items_by_category_paging_params_advancing(categoria, limit, offset) ==
    ("offset" :> offset) @@ ("limit" :> limit) @@ ("category" :> categoria)

\* offset is the local counter; the literal 0 is what line 230 sends
get_items_by_category_paging_params(categoria, limit, offset) ==
    ("offset" :> 0) @@ ("limit" :> limit) @@ ("category" :> categoria)

get_items_by_seller_category_params(seller_id, categoria) ==
    ("seller_id" :> seller_id) @@ ("category" :> categoria)

get_visits_by_items_params(dias, data_final) ==
    ("last" :> dias) @@ ("unit" :> "day") @@ ("ending" :> data_final)

get_selled_items_by_seller_params(seller_id) ==
    ("seller" :> seller_id) @@ ("order.status" :> "paid")

OrdersSearch == <<"orders/search">>
SitesSearch == <<"sites/MLB/search">>
SitesCategories == <<"sites/MLB/categories">>
ItemsEndpoint(id_produto) == <<"items/", id_produto>>
VisitsEndpoint(id_produto) == <<"items/", id_produto, "/visits/time_window">>

\* the methods whose body is one `return self._make_api_request(...)`
SingleRequestMethods ==
    {"get_vendas", "get_vendas_by_range", "get_produtos", "get_items_by_seller",
     "get_all_categories", "get_items_by_category", "get_items_by_seller_category",
     "get_visits_by_items", "get_selled_items_by_seller"}

PagedMethods == {"get_produtos_paginacao", "get_items_by_category_paging"}

-----------------------------------------------------------------------------
(* A call: from its entry to its first GET *)

Invoke(t, call, endpoint, params) ==
    /\ init_pc = "ready"
    /\ frame[t].pc = "idle"
    /\ frame' = [frame EXCEPT ![t] =
                   [IdleFrame EXCEPT !.pc = "wait", !.call = call,
                                     !.req = Request(endpoint, params),
                                     !.ngets = 1]]
    /\ auth_sent' = auth_sent \cup {Request(endpoint, params).headers.Authorization}
    /\ UNCHANGED <<init_pc, access_token, base_url, user_agent, post_req, posts,
                   token_resp, init_exc>>

get_vendas(t, seller_id) ==
    Invoke(t, [seller_id |-> seller_id, method |-> "get_vendas"],
           OrdersSearch, get_vendas_params(seller_id))

get_vendas_by_range(t, seller_id, dt_ini, dt_fim) ==
    Invoke(t, [seller_id |-> seller_id, method |-> "get_vendas_by_range",
               dt_ini |-> dt_ini, dt_fim |-> dt_fim],
           OrdersSearch, get_vendas_by_range_params(seller_id, dt_ini, dt_fim))

get_produtos(t, palavra_chave) ==
    Invoke(t, [method |-> "get_produtos", palavra_chave |-> palavra_chave],
           SitesSearch, get_produtos_params(palavra_chave))

get_produtos_paginacao(t, palavra_chave, limit) ==
    Invoke(t, [method |-> "get_produtos_paginacao",
               palavra_chave |-> palavra_chave, limit |-> limit],
           SitesSearch, get_produtos_paginacao_params(palavra_chave, limit, 0))

get_items_details(t, id_produto) ==
    Invoke(t, [method |-> "get_items_details", id_produto |-> id_produto],
           ItemsEndpoint(id_produto), NoParams)

get_items_by_seller(t, id_seller) ==
    Invoke(t, [method |-> "get_items_by_seller", id_seller |-> id_seller],
           SitesSearch, get_items_by_seller_params(id_seller))

get_all_categories(t) ==
    Invoke(t, [method |-> "get_all_categories"], SitesCategories, NoParams)

get_items_by_category(t, categoria) ==
    Invoke(t, [method |-> "get_items_by_category", categoria |-> categoria],
           SitesSearch, get_items_by_category_params(categoria))

get_items_by_category_paging(t, categoria, limit) ==
    Invoke(t, [method |-> "get_items_by_category_paging",
               limit |-> limit, categoria |-> categoria],
           SitesSearch, get_items_by_category_paging_params(categoria, limit, 0))

get_items_by_seller_category(t, seller_id, categoria) ==
    Invoke(t, [seller_id |-> seller_id, method |-> "get_items_by_seller_category",
               categoria |-> categoria],
           SitesSearch, get_items_by_seller_category_params(seller_id, categoria))

get_visits_by_items(t, id_produto, dias, data_final) ==
    Invoke(t, [method |-> "get_visits_by_items", dias |-> dias,
               data_final |-> data_final, id_produto |-> id_produto],
           VisitsEndpoint(id_produto), get_visits_by_items_params(dias, data_final))

get_selled_items_by_seller(t, seller_id) ==
    Invoke(t, [seller_id |-> seller_id, method |-> "get_selled_items_by_seller"],
           OrdersSearch, get_selled_items_by_seller_params(seller_id))

-----------------------------------------------------------------------------
(* A call: from the answer to a GET to its next GET, its return or its fault *)

\* the frame once _make_api_request has ended with out on the answer r
Answered(f, r, out) == [f EXCEPT !.hist = Append(f.hist, r), !.api_result = out]

Returned(f, v) == [f EXCEPT !.pc = "returned", !.ret = v]

Raised(f, e) == [f EXCEPT !.pc = "raised", !.exc = e]

\* variant: no slice
PrefixWhole(s, n) == s

\* s[:n]
Prefix(s, n) == SubSeq(s, 1, IF Len(s) < n THEN Len(s) ELSE n)

\* a single-request method returns what _make_api_request returns
single_request_step(f, r) ==
    LET out == make_api_request_result(r)
        a == Answered(f, r, out)
    IN
    IF out.tag = "raise" THEN Raised(a, out.error) ELSE Returned(a, out.val)

\* line 172: three subscripts of dados, left to right
get_items_details_step(f, r) ==
    LET out == make_api_request_result(r)
        a == Answered(f, r, out)
    IN
    IF out.tag = "raise" THEN Raised(a, out.error)
    ELSE LET dados == out.val IN
         IF dados.type = "NoneType" THEN Raised(a, "TypeError")
         ELSE IF "start_time" \notin DOMAIN dados.value THEN Raised(a, "KeyError")
         ELSE IF "seller_id" \notin DOMAIN dados.value THEN Raised(a, "KeyError")
         ELSE IF "sold_quantity" \notin DOMAIN dados.value THEN Raised(a, "KeyError")
         ELSE Returned(a, Tuple(<<Prefix(dados.value.start_time, DateLen),
                                     dados.value.seller_id,
                                     dados.value.sold_quantity>>))

\* the next turn of a `while True` loop: the same request again
NextPage(f, params) ==
    [f EXCEPT !.ngets = f.ngets + 1, !.req = Request(SitesSearch, params)]

\* lines 144-154: both branches of the test on paging.total break, and a None
\* response breaks nowhere
get_produtos_paginacao_step(f, r) ==
    LET out == make_api_request_result(r)
        a == Answered(f, r, out)
        limit == f.call.limit
    IN
    IF out.tag = "raise" THEN Raised(a, out.error)
    ELSE LET response == out.val IN
         IF response.type # "NoneType"
         THEN IF "results" \notin DOMAIN response.value THEN Raised(a, "KeyError")
              ELSE LET g == [a EXCEPT !.resultados = f.resultados \o response.value.results,
                                      !.offset = f.offset + limit]
                   IN
                   IF "paging" \notin DOMAIN response.value THEN Raised(g, "KeyError")
                   ELSE IF g.offset >= response.value.paging.total
                        THEN Returned(g, List(g.resultados))
                        ELSE Returned(g, List(g.resultados))
         ELSE NextPage(a, get_produtos_paginacao_params(f.call.palavra_chave, limit, f.offset))

\* variant: the loop ends on offset > total in place of offset >= total
get_items_by_category_paging_step_strict(f, r) ==
    LET out == make_api_request_result(r)
        a == Answered(f, r, out)
        limit == f.call.limit
    IN
    IF out.tag = "raise" THEN Raised(a, out.error)
    ELSE LET response == out.val IN
         IF response.type # "NoneType"
         THEN IF "results" \notin DOMAIN response.value THEN Raised(a, "KeyError")
              ELSE LET g == [a EXCEPT !.resultados = f.resultados \o response.value.results,
                                      !.offset = f.offset + limit]
                   IN
                   IF "paging" \notin DOMAIN response.value THEN Raised(g, "KeyError")
                   ELSE IF g.offset > response.value.paging.total
                        THEN Returned(g, List(g.resultados))
                        ELSE NextPage(g, get_items_by_category_paging_params(f.call.categoria, limit, g.offset))
         ELSE Returned(a, List(f.resultados))

\* lines 231-242
get_items_by_category_paging_step(f, r) ==
    LET out == make_api_request_result(r)
        a == Answered(f, r, out)
        limit == f.call.limit
    IN
    IF out.tag = "raise" THEN Raised(a, out.error)
    ELSE LET response == out.val IN
         IF response.type # "NoneType"
         THEN IF "results" \notin DOMAIN response.value THEN Raised(a, "KeyError")
              ELSE LET g == [a EXCEPT !.resultados = f.resultados \o response.value.results,
                                      !.offset = f.offset + limit]
                   IN
                   IF "paging" \notin DOMAIN response.value THEN Raised(g, "KeyError")
                   ELSE IF g.offset >= response.value.paging.total
                        THEN Returned(g, List(g.resultados))
                        ELSE NextPage(g, get_items_by_category_paging_params(f.call.categoria, limit, g.offset))
         ELSE Returned(a, List(f.resultados))

\* the frame after the answer r; a call is followed for at most MaxGets GETs
Resume(t, new) ==
    /\ frame[t].pc = "wait"
    /\ new.ngets <= MaxGets
    /\ frame' = [frame EXCEPT ![t] = new]
    /\ auth_sent' = IF new.pc = "wait"
                    THEN auth_sent \cup {new.req.headers.Authorization}
                    ELSE auth_sent
    /\ UNCHANGED <<init_pc, access_token, base_url, user_agent, post_req, posts,
                   token_resp, init_exc>>

SingleRequestReply(t, r) ==
    /\ frame[t].call.method \in SingleRequestMethods
    /\ Resume(t, single_request_step(frame[t], r))

ItemsDetailsReply(t, r) ==
    /\ frame[t].call.method = "get_items_details"
    /\ Resume(t, get_items_details_step(frame[t], r))

ProdutosPaginacaoReply(t, r) ==
    /\ frame[t].call.method = "get_produtos_paginacao"
    /\ Resume(t, get_produtos_paginacao_step(frame[t], r))

CategoryPagingReply(t, r) ==
    /\ frame[t].call.method = "get_items_by_category_paging"
    /\ Resume(t, get_items_by_category_paging_step(frame[t], r))

\* the caller takes the result (or the exception) and may call again
Finish(t) ==
    /\ frame[t].pc \in {"returned", "raised"}
    /\ frame' = [frame EXCEPT ![t] = IdleFrame]
    /\ UNCHANGED <<init_pc, access_token, base_url, user_agent, post_req, posts,
                   token_resp, init_exc, auth_sent>>

-----------------------------------------------------------------------------
Init ==
    /\ init_pc = "new"
    /\ access_token = Unset
    /\ base_url = Unset
    /\ user_agent = Unset
    /\ post_req = NoPost
    /\ posts = 0
    /\ token_resp = NoResponse
    /\ init_exc = ""
    /\ frame = [t \in Threads |-> IdleFrame]
    /\ auth_sent = {}

\* one caller thread, the full inputs
Next ==
    \/ \E ci \in ClientIds, cs \in ClientSecrets, rt \in RefreshTokens :
          Construct(ci, cs, rt)
    \/ \E r \in TokenResponses : TokenReply(r)
    \/ \E t \in MainThread, s \in SellerIds : get_vendas(t, s)
    \/ \E t \in MainThread, s \in SellerIds, d1 \in Dates, d2 \in Dates :
          get_vendas_by_range(t, s, d1, d2)
    \/ \E t \in MainThread, k \in Keywords : get_produtos(t, k)
    \/ \E t \in MainThread, k \in Keywords, l \in Limits : get_produtos_paginacao(t, k, l)
    \/ \E t \in MainThread, i \in ItemIds : get_items_details(t, i)
    \/ \E t \in MainThread, s \in SellerIds : get_items_by_seller(t, s)
    \/ \E t \in MainThread : get_all_categories(t)
    \/ \E t \in MainThread, c \in Categories : get_items_by_category(t, c)
    \/ \E t \in MainThread, c \in Categories, l \in Limits :
          get_items_by_category_paging(t, c, l)
    \/ \E t \in MainThread, s \in SellerIds, c \in Categories :
          get_items_by_seller_category(t, s, c)
    \/ \E t \in MainThread, i \in ItemIds, n \in Days, d \in Dates :
          get_visits_by_items(t, i, n, d)
    \/ \E t \in MainThread, s \in SellerIds : get_selled_items_by_seller(t, s)
    \/ \E t \in MainThread, r \in Responses : SingleRequestReply(t, r)
    \/ \E t \in MainThread, r \in Responses : ItemsDetailsReply(t, r)
    \/ \E t \in MainThread, r \in Responses : ProdutosPaginacaoReply(t, r)
    \/ \E t \in MainThread, r \in Responses : CategoryPagingReply(t, r)
    \/ \E t \in MainThread : Finish(t)

Spec == Init /\ [][Next]_vars

\* two caller threads on the one client, the smaller inputs
NextThreads ==
    \/ \E ci \in ClientIds, cs \in ClientSecrets, rt \in RefreshTokens :
          Construct(ci, cs, rt)
    \/ \E r \in TokenResponses : TokenReply(r)
    \/ \E t \in Threads, s \in ConcSellerIds : get_vendas(t, s)
    \/ \E t \in Threads, s \in ConcSellerIds, d1 \in ConcDates, d2 \in ConcDates :
          get_vendas_by_range(t, s, d1, d2)
    \/ \E t \in Threads, k \in Keywords : get_produtos(t, k)
    \/ \E t \in Threads, k \in Keywords, l \in ConcLimits : get_produtos_paginacao(t, k, l)
    \/ \E t \in Threads, i \in ConcItemIds : get_items_details(t, i)
    \/ \E t \in Threads, s \in ConcSellerIds : get_items_by_seller(t, s)
    \/ \E t \in Threads : get_all_categories(t)
    \/ \E t \in Threads, c \in Categories : get_items_by_category(t, c)
    \/ \E t \in Threads, c \in Categories, l \in ConcLimits :
          get_items_by_category_paging(t, c, l)
    \/ \E t \in Threads, s \in ConcSellerIds, c \in Categories :
          get_items_by_seller_category(t, s, c)
    \/ \E t \in Threads, i \in ConcItemIds, n \in ConcDays, d \in ConcDates :
          get_visits_by_items(t, i, n, d)
    \/ \E t \in Threads, s \in ConcSellerIds : get_selled_items_by_seller(t, s)
    \/ \E t \in Threads, r \in ConcResponses : SingleRequestReply(t, r)
    \/ \E t \in Threads, r \in ConcResponses : ItemsDetailsReply(t, r)
    \/ \E t \in Threads, r \in ConcResponses : ProdutosPaginacaoReply(t, r)
    \/ \E t \in Threads, r \in ConcResponses : CategoryPagingReply(t, r)
    \/ \E t \in Threads : Finish(t)

SpecThreads == Init /\ [][NextThreads]_vars

-----------------------------------------------------------------------------
(* Vocabulary of the properties *)

HasAnswer(t) == frame[t].hist # <<>>
\* the most recent answer to a GET of thread t's call
Answer(t) == frame[t].hist[Len(frame[t].hist)]
IsResponse(r) == r.kind = "response"
Is200(r) == r.kind = "response" /\ r.status_code = 200
Not200(r) == r.kind = "response" /\ r.status_code # 200
IsJson200(r) == Is200(r) /\ r.text.valid
HasKeys(r, keys) == IsJson200(r) /\ keys \subseteq DOMAIN r.text.doc

ReturnsNone(x) == x.tag = "return" /\ x.val.type = "NoneType"
ReturnsDoc(x, d) == x.tag = "return" /\ x.val.type = "dict" /\ x.val.value = d
Raises(x, e) == x.tag = "raise" /\ x.error = e

\* GETs issued = answers taken, plus the one still awaited
OneGetPerRequest(t) ==
    frame[t].ngets = Len(frame[t].hist) + (IF frame[t].pc = "wait" THEN 1 ELSE 0)

RECURSIVE ResultsOf(_)
\* the results of the answers that carried results, in order of arrival
ResultsOf(h) ==
    IF h = <<>> THEN <<>>
    ELSE ResultsOf(SubSeq(h, 1, Len(h) - 1))
           \o (IF HasKeys(h[Len(h)], {"results"}) THEN h[Len(h)].text.doc.results ELSE <<>>)

PagesIn(h) == Cardinality({i \in 1 .. Len(h) : HasKeys(h[i], {"results"})})

RECURSIVE Copies(_, _)
Copies(P, n) == IF n <= 0 THEN <<>> ELSE P \o Copies(P, n - 1)

CeilDiv(a, b) == (a + b - 1) \div b
Max(a, b) == IF a >= b THEN a ELSE b

\* s is the first n characters of w (all of w when w is shorter)
IsPrefixOfLen(s, w, n) ==
    /\ Len(s) = (IF Len(w) < n THEN Len(w) ELSE n)
    /\ \A i \in 1 .. Len(s) : s[i] = w[i]

-----------------------------------------------------------------------------
(* C1 *)

\* C1 as stated: for every server response, one call of _make_api_request
\* issues exactly one GET and returns the decoded JSON body if and only if
\* the status code is 200; for every other status code it returns None.
C1_Original ==
    \A t \in Threads :
        (HasAnswer(t) /\ IsResponse(Answer(t))) =>
            /\ OneGetPerRequest(t)
            /\ (Answer(t).status_code = 200) <=>
                   (Answer(t).text.valid /\ ReturnsDoc(frame[t].api_result, Answer(t).text.doc))
            /\ (Answer(t).status_code # 200) => ReturnsNone(frame[t].api_result)

\* C1 amended: one call of _make_api_request issues exactly one GET; it
\* returns the decoded JSON body if and only if the status code is 200 and the
\* body is valid JSON; on status 200 with a body that is not JSON it raises;
\* for every other status code it returns None.
C1_StatusDecides ==
    \A t \in Threads :
        (HasAnswer(t) /\ IsResponse(Answer(t))) =>
            /\ OneGetPerRequest(t)
            /\ (Answer(t).status_code = 200 /\ Answer(t).text.valid) =>
                   ReturnsDoc(frame[t].api_result, Answer(t).text.doc)
            /\ (Answer(t).status_code = 200 /\ ~Answer(t).text.valid) =>
                   frame[t].api_result.tag = "raise"
            /\ (Answer(t).status_code # 200) => ReturnsNone(frame[t].api_result)

\* a 2xx status other than 200 with a decodable body was answered with None
C1_Witness ==
    \E t \in Threads :
        /\ HasAnswer(t)
        /\ IsResponse(Answer(t))
        /\ Answer(t).status_code = 201
        /\ Answer(t).text.valid
        /\ ReturnsNone(frame[t].api_result)

-----------------------------------------------------------------------------
(* C2 *)

\* C2: after a non-200 answer every query method has returned None to its
\* caller (no fault, no empty list, no further waiting).
C2_NullPropagates ==
    \A t \in Threads :
        (HasAnswer(t) /\ Not200(Answer(t))) =>
            /\ frame[t].pc = "returned"
            /\ frame[t].ret.type = "NoneType"

-----------------------------------------------------------------------------
(* C3 *)

\* C3 as stated: after a 200 answer with JSON body B every method has returned
\* exactly B, the paginated ones too; get_items_details has returned the triple
\* (when B has the three fields).
C3_Original ==
    \A t \in Threads :
        (HasAnswer(t) /\ IsJson200(Answer(t))) =>
            IF frame[t].call.method = "get_items_details"
            THEN HasKeys(Answer(t), {"start_time", "seller_id", "sold_quantity"}) =>
                     /\ frame[t].pc = "returned"
                     /\ frame[t].ret.type = "tuple"
            ELSE /\ frame[t].pc = "returned"
                 /\ frame[t].ret.type = "dict"
                 /\ frame[t].ret.value = Answer(t).text.doc

\* C3 amended: after a 200 answer with JSON body B, a single-request method
\* has returned exactly B; get_items_details has returned the triple (first 10
\* characters of B.start_time, B.seller_id, B.sold_quantity) when B has the
\* three fields and has raised KeyError otherwise; a paginated method never
\* returns B: when B has results and paging, get_produtos_paginacao has returned
\* the list B.results, and get_items_by_category_paging, once it returns,
\* returns the list of the results of all the pages it took; when B lacks
\* results or paging both have raised KeyError.
C3_ReturnsBody ==
    \A t \in Threads :
        (HasAnswer(t) /\ IsJson200(Answer(t))) =>
            LET f == frame[t]
                B == Answer(t).text.doc
            IN
            /\ (f.call.method \in SingleRequestMethods) =>
                   /\ f.pc = "returned"
                   /\ f.ret.type = "dict"
                   /\ f.ret.value = B
            /\ (f.call.method = "get_items_details") =>
                   IF {"start_time", "seller_id", "sold_quantity"} \subseteq DOMAIN B
                   THEN /\ f.pc = "returned"
                        /\ f.ret.type = "tuple"
                        /\ Len(f.ret.value) = 3
                        /\ IsPrefixOfLen(f.ret.value[1], B.start_time, 10)
                        /\ f.ret.value[2] = B.seller_id
                        /\ f.ret.value[3] = B.sold_quantity
                   ELSE f.pc = "raised" /\ f.exc = "KeyError"
            /\ (f.call.method \in PagedMethods) =>
                   IF {"results", "paging"} \subseteq DOMAIN B
                   THEN /\ f.pc \in {"returned", "wait"}
                        /\ (f.pc = "returned") =>
                               /\ f.ret.type = "list"
                               /\ f.ret.value = ResultsOf(f.hist)
                        /\ (f.call.method = "get_produtos_paginacao") =>
                               /\ f.pc = "returned"
                               /\ f.ret.value = B.results
                   ELSE f.pc = "raised" /\ f.exc = "KeyError"

\* get_items_details returned a triple whose date was cut to 10 characters
C3_Witness ==
    \E t \in Threads :
        /\ frame[t].call.method = "get_items_details"
        /\ frame[t].pc = "returned"
        /\ IsJson200(Answer(t))
        /\ Len(Answer(t).text.doc.start_time) > 10
        /\ Len(frame[t].ret.value[1]) = 10

-----------------------------------------------------------------------------
(* C4 *)

\* the token the token endpoint returned at construction
IssuedToken == token_resp.text.doc.access_token

C4_State ==
    /\ (init_pc # "ready") => auth_sent = {}
    /\ (init_pc = "ready") =>
           /\ access_token = IssuedToken
           /\ auth_sent \subseteq {IssuedToken}
           /\ \A t \in Threads :
                  (frame[t].pc # "idle") =>
                      frame[t].req.headers.Authorization = IssuedToken

\* C4: after construction the stored access token is never modified, and every
\* GET, of any thread, carries in its Authorization header the token value the
\* token endpoint returned at construction.
C4_TokenFixed ==
    /\ []C4_State
    /\ [][(init_pc = "ready") => (access_token' = access_token /\ token_resp' = token_resp)]_vars

\* two threads have calls in flight at once, one of them past its first GET
C4_Witness ==
    /\ frame["t1"].pc = "wait"
    /\ frame["t2"].pc = "wait"
    /\ frame["t1"].ngets >= 2
    /\ auth_sent = {access_token}
    /\ access_token \in Tokens

-----------------------------------------------------------------------------
(* C5 *)

CredentialKeys == {"client_id", "client_secret", "refresh_token", "grant_type"}

\* C5: construction issues exactly one POST, which alone carries the
\* credentials; no GET is issued before the POST has returned a body with
\* access_token; with the field the client holds exactly that value; without it
\* construction ends in KeyError, no client exists and no GET is ever issued.
C5_Construction ==
    /\ posts <= 1
    /\ (init_pc = "new") <=> (posts = 0)
    /\ (init_pc # "new") => DOMAIN post_req.data = CredentialKeys
    /\ (init_pc # "ready") =>
           /\ auth_sent = {}
           /\ access_token = Unset
           /\ \A t \in Threads : frame[t].pc = "idle" /\ frame[t].ngets = 0
    /\ \A t \in Threads :
           (frame[t].pc # "idle") =>
               /\ DOMAIN frame[t].req.params \cap CredentialKeys = {}
               /\ frame[t].req.headers.Authorization \notin
                      {post_req.data.client_id, post_req.data.client_secret,
                       post_req.data.refresh_token}
    /\ (init_pc \in {"ready", "failed"} /\ IsResponse(token_resp) /\ token_resp.text.valid) =>
           IF "access_token" \in DOMAIN token_resp.text.doc
           THEN init_pc = "ready" /\ access_token = token_resp.text.doc.access_token
           ELSE init_pc = "failed" /\ init_exc = "KeyError"
    /\ (init_pc = "ready") =>
           /\ IsResponse(token_resp)
           /\ token_resp.text.valid
           /\ "access_token" \in DOMAIN token_resp.text.doc

\* the token endpoint answered without access_token: KeyError, no client
C5_Witness ==
    /\ init_pc = "failed"
    /\ init_exc = "KeyError"
    /\ posts = 1
    /\ token_resp.text.valid

-----------------------------------------------------------------------------
(* C6 *)

\* C6 as stated: a 4xx status, a 5xx status, a network failure of the GET and
\* a status-200 body that is not JSON all make _make_api_request return None.
C6_Original ==
    \A t \in Threads :
        (HasAnswer(t) /\ ~IsJson200(Answer(t))) => ReturnsNone(frame[t].api_result)

\* C6 amended: _make_api_request treats all non-200 statuses alike, 4xx and
\* 5xx both give None and no fault; a network failure of the GET and a
\* status-200 body that is not JSON are not turned into None: each leaves
\* _make_api_request as an exception, which reaches the method's caller.
C6_FailureKinds ==
    \A t \in Threads :
        HasAnswer(t) =>
            /\ Not200(Answer(t)) =>
                   /\ ReturnsNone(frame[t].api_result)
                   /\ frame[t].exc \notin {"ConnectionError", "JSONDecodeError"}
            /\ (~IsResponse(Answer(t))) =>
                   /\ Raises(frame[t].api_result, "ConnectionError")
                   /\ frame[t].pc = "raised"
                   /\ frame[t].exc = "ConnectionError"
            /\ (Is200(Answer(t)) /\ ~Answer(t).text.valid) =>
                   /\ Raises(frame[t].api_result, "JSONDecodeError")
                   /\ frame[t].pc = "raised"
                   /\ frame[t].exc = "JSONDecodeError"

\* a status-200 answer that is not JSON ended a call with an exception
C6_Witness ==
    \E t \in Threads :
        /\ HasAnswer(t)
        /\ Is200(Answer(t))
        /\ ~Answer(t).text.valid
        /\ frame[t].pc = "raised"

-----------------------------------------------------------------------------
(* C7 *)

MidnightSuffix == <<"T", "0", "0", ":", "0", "0", ":", "0", "0", ".", "0", "0", "0", "-", "0", "0", ":", "0", "0">>
LastSecondSuffix == <<"T", "2", "3", ":", "5", "9", ":", "5", "9", ".", "0", "0", "0", "-", "0", "0", ":", "0", "0">>

\* C7: get_vendas_by_range issues exactly one GET, to orders/search, with
\* seller = seller id, order.date_created.from = dt_ini followed by
\* T00:00:00.000-00:00 and order.date_created.to = dt_fim followed by
\* T23:59:59.000-00:00, and ends as the request primitive ends.
C7_DateRange ==
    \A t \in Threads :
        (frame[t].call.method = "get_vendas_by_range") =>
            LET f == frame[t] IN
            /\ f.ngets = 1
            /\ f.req.url = <<"https://api.mercadolibre.com/", "orders/search">>
            /\ f.req.params["seller"] = f.call.seller_id
            /\ f.req.params["order.date_created.from"] = f.call.dt_ini \o MidnightSuffix
            /\ f.req.params["order.date_created.to"] = f.call.dt_fim \o LastSecondSuffix
            /\ HasAnswer(t) =>
                   /\ Len(f.hist) = 1
                   /\ f.pc \in {"returned", "raised"}
                   /\ (f.pc = "returned") =>
                          f.api_result.tag = "return" /\ f.ret = f.api_result.val
                   /\ (f.pc = "raised") => Raises(f.api_result, f.exc)
                   /\ Not200(Answer(t)) => (f.pc = "returned" /\ f.ret.type = "NoneType")
                   /\ IsJson200(Answer(t)) =>
                          (f.pc = "returned" /\ f.ret.type = "dict" /\ f.ret.value = Answer(t).text.doc)

\* the date-range query with two different dates got its body back
C7_Witness ==
    \E t \in Threads :
        /\ frame[t].call.method = "get_vendas_by_range"
        /\ frame[t].call.dt_ini = Date1
        /\ frame[t].call.dt_fim = Date2
        /\ frame[t].pc = "returned"
        /\ frame[t].ret.type = "dict"

-----------------------------------------------------------------------------
(* C8 *)

\* C8: a call of get_produtos_paginacao never issues a second GET, and has
\* ended once its GET is answered.
C8_OnePage ==
    \A t \in Threads :
        (frame[t].call.method = "get_produtos_paginacao") =>
            /\ frame[t].ngets <= 1
            /\ HasAnswer(t) => frame[t].pc \in {"returned", "raised"}

-----------------------------------------------------------------------------
(* C9 *)

\* C9: in both paginated methods every GET carries offset = 0 and the caller's
\* limit, while the local offset counter is limit times the number of pages
\* taken so far.
C9_OffsetZero ==
    \A t \in Threads :
        (frame[t].call.method \in PagedMethods) =>
            /\ frame[t].req.params["offset"] = 0
            /\ frame[t].req.params["limit"] = frame[t].call.limit
            /\ frame[t].offset = frame[t].call.limit * PagesIn(frame[t].hist)

\* a further page is being requested although the local counter has advanced
C9_Witness ==
    \E t \in Threads :
        /\ frame[t].call.method = "get_items_by_category_paging"
        /\ frame[t].pc = "wait"
        /\ frame[t].ngets >= 2
        /\ frame[t].offset > 0
        /\ frame[t].req.params["offset"] = 0

-----------------------------------------------------------------------------
(* C10 *)

\* the i-th answer was a full page that left the total unreached
Continues(h, i, limit) ==
    /\ HasKeys(h[i], {"results", "paging"})
    /\ h[i].text.doc.paging.total > i * limit

\* every answer was status 200 with the page P and the total T
AllSame(h, P, T) ==
    \A i \in 1 .. Len(h) :
        /\ HasKeys(h[i], {"results", "paging"})
        /\ h[i].text.doc.results = P
        /\ h[i].text.doc.paging.total = T

\* C10: a call of get_items_by_category_paging with limit >= 1 appends each
\* page's results in order and adds limit to its counter, goes on while the
\* answers are pages whose total exceeds the counter, and returns the
\* accumulated list right after the first answer that is non-200 or whose
\* total is <= the counter; with the same page P and total T in every answer
\* it returns after exactly max(1, ceil(T/limit)) GETs that many copies of P.
C10_CategoryPaging ==
    \A t \in Threads :
        (frame[t].call.method = "get_items_by_category_paging" /\ frame[t].call.limit >= 1) =>
            LET f == frame[t]
                h == f.hist
                limit == f.call.limit
            IN
            /\ f.resultados = ResultsOf(h)
            /\ f.offset = limit * PagesIn(h)
            /\ OneGetPerRequest(t)
            /\ \A i \in 1 .. Len(h) - 1 : Continues(h, i, limit)
            /\ (f.pc = "wait" /\ HasAnswer(t)) => Continues(h, Len(h), limit)
            /\ (HasAnswer(t) /\ Not200(Answer(t))) => f.pc = "returned"
            /\ (HasAnswer(t) /\ HasKeys(Answer(t), {"results", "paging"})
                  /\ Answer(t).text.doc.paging.total <= Len(h) * limit) => f.pc = "returned"
            /\ (f.pc = "returned") =>
                   /\ f.ret.type = "list"
                   /\ f.ret.value = ResultsOf(h)
                   /\ \/ Not200(Answer(t))
                      \/ /\ HasKeys(Answer(t), {"results", "paging"})
                         /\ Answer(t).text.doc.paging.total <= Len(h) * limit
            /\ \A P \in Pages, T \in Totals :
                   AllSame(h, P, T) =>
                       /\ f.ngets <= Max(1, CeilDiv(T, limit))
                       /\ (f.pc = "returned") =>
                              /\ f.ngets = Max(1, CeilDiv(T, limit))
                              /\ f.ret.value = Copies(P, Max(1, CeilDiv(T, limit)))

\* three GETs for a total of 3 at limit 1: three copies of the two-item page
C10_Witness ==
    \E t \in Threads :
        /\ frame[t].call.method = "get_items_by_category_paging"
        /\ frame[t].call.limit = 1
        /\ frame[t].pc = "returned"
        /\ frame[t].ngets = 3
        /\ AllSame(frame[t].hist, Page2, 3)
        /\ frame[t].ret.value = Page2 \o Page2 \o Page2
====
